---------------------------- MODULE Spec2Model ----------------------------
(***************************************************************************)
(* A model of rekall's AFF4 address space                                  *)
(* (rekall-core/rekall/plugins/addrspaces/aff4.py).                        *)
(*                                                                         *)
(* Strings are sequences of one-character strings, so that the filename    *)
(* normalisation and the path splitting are computed character by          *)
(* character, as the code computes them.                                   *)
(***************************************************************************)
EXTENDS Integers, Sequences, FiniteSets, TLC

VARIABLES
    norm_in,        \* the filename handed to _normalize_filename
    norm_out,       \* its result, or Pending before the call
    loc_path,       \* the path handed to _LocateAFF4Volume
    loc_opens,      \* the paths AFF4FactoryOpen opens without IOError
    loc_result,     \* what _LocateAFF4Volume returned or raised, or Pending
    vol,            \* the container volume stored at VolumePath
    file_mappings,  \* the session's "file_mappings" cache (filename -> offset)
    ninst,          \* address spaces constructed so far in the session
    as_state,       \* "Unopened", "Ready" or "Failed" (the constructor raised)
    image,          \* self.image: the subject of the primary stream, or None
    runs,           \* self.runs
    filenames,      \* self.filenames, or None while the attribute is not set
    mapped_files,   \* self.mapped_files
    first_call,     \* per normalised filename: what its first call on this address space gave
    last,           \* the last call made on the address space and its outcome
    view,           \* what the last describe, read or ConfigureSession gave
    metadata,       \* the information.yaml side-stream of the primary stream
    params,         \* the session's dtb and kernel_base: explicitly set, and cached
    pc,             \* per thread: where it is in get_mapped_offset
    thr,            \* per thread: the local variables of its get_mapped_offset call
    cur_volume_path, \* _LocateAFF4Volume's loop variable
    cur_stream_name, \* _LocateAFF4Volume's list of split-off components
    coll            \* CollectAction.run: the collection, the query and the position

normVars == <<norm_in, norm_out>>
locVars == <<loc_path, loc_opens, loc_result>>
asVars == <<vol, file_mappings, ninst, as_state, image, runs, filenames, mapped_files, first_call, last>>
useVars == <<view, metadata, params>>
threadVars == <<pc, thr>>
loopVars == <<cur_volume_path, cur_stream_name>>
collVars == <<coll>>
vars == <<norm_in, norm_out, loc_path, loc_opens, loc_result,
          vol, file_mappings, ninst, as_state, image, runs, filenames, mapped_files, first_call, last,
          view, metadata, params, pc, thr, cur_volume_path, cur_stream_name, coll>>

\* An optional value is a sequence of length 0 (Python's None, or a call not
\* yet made) or 1.
None == <<>>
Some(x) == <<x>>
Pending == <<>>

(***************************************************************************)
(* Character strings.                                                      *)
(***************************************************************************)
UpperCase == <<"A", "B", "C", "D", "E", "F", "G", "H", "I", "J", "K", "L", "M", "N", "O", "P", "Q", "R", "S", "T", "U", "V", "W", "X", "Y", "Z">>
LowerCase == <<"a", "b", "c", "d", "e", "f", "g", "h", "i", "j", "k", "l", "m", "n", "o", "p", "q", "r", "s", "t", "u", "v", "w", "x", "y", "z">>

IsUpper(c) == \E i \in 1..Len(UpperCase) : UpperCase[i] = c
IsLowerLetter(c) == \E i \in 1..Len(LowerCase) : LowerCase[i] = c
IsLetter(c) == IsUpper(c) \/ IsLowerLetter(c)

UpperSet == {UpperCase[i] : i \in 1..Len(UpperCase)}
LowerOf == [c \in UpperSet |-> LowerCase[CHOOSE i \in 1..Len(UpperCase) : UpperCase[i] = c]]

LowerChar(c) == IF c \in UpperSet THEN LowerOf[c] ELSE c

\* str.lower()
Lower(s) == [i \in 1..Len(s) |-> LowerChar(s[i])]

StartsWith(s, p) == Len(s) >= Len(p) /\ SubSeq(s, 1, Len(p)) = p

\* str.replace(old, new): every non-overlapping occurrence, leftmost first.
RECURSIVE Replace(_, _, _)
Replace(s, old, new) ==
    IF Len(s) < Len(old) THEN s
    ELSE IF StartsWith(s, old)
         THEN new \o Replace(SubSeq(s, Len(old) + 1, Len(s)), old, new)
         ELSE <<s[1]>> \o Replace(Tail(s), old, new)

Slash == "/"
BackSlash == "\\"
SysNative == <<"S", "y", "s", "N", "a", "t", "i", "v", "e">>
System32 == <<"S", "y", "s", "t", "e", "m", "3", "2">>

(***************************************************************************)
(* _normalize_filename                                                     *)
(***************************************************************************)
\* [a-zA-Z]:[/\\].+ matched at the start of s
DriveRest(s) ==
    /\ Len(s) >= 4
    /\ IsLetter(s[1])
    /\ s[2] = ":"
    /\ s[3] \in {Slash, BackSlash}

\* re.match(r"/?([a-zA-Z]:[/\\].+)", filename): group(1), or None.
DriveMatch(filename) ==
    IF Len(filename) >= 1 /\ filename[1] = Slash /\ DriveRest(Tail(filename))
    THEN Some(Tail(filename))
    ELSE IF DriveRest(filename) THEN Some(filename)
    ELSE None

\* filename.replace("SysNative", "System32")
ReplaceSysNative(s) == Replace(s, SysNative, System32)

NormalizeFilename(filename) ==
    LET m == DriveMatch(filename) IN
    IF m # None
    THEN Lower(ReplaceSysNative(Replace(m[1], <<Slash>>, <<BackSlash>>)))
    ELSE filename

(***************************************************************************)
(* os.path.split and os.path.join (posixpath), as _LocateAFF4Volume uses   *)
(* them.                                                                   *)
(***************************************************************************)
\* p.rfind("/") + 1: the length of the part up to and including the last "/"
RFindSlash(p) ==
    LET at == {i \in 1..Len(p) : p[i] = Slash} IN
    IF at = {} THEN 0 ELSE CHOOSE i \in at : \A j \in at : j <= i

AllSlashes(s) == \A i \in 1..Len(s) : s[i] = Slash

\* head.rstrip("/")
RECURSIVE RStripSlash(_)
RStripSlash(s) ==
    IF Len(s) > 0 /\ s[Len(s)] = Slash
    THEN RStripSlash(SubSeq(s, 1, Len(s) - 1))
    ELSE s

PosixSplitKeepsHead(p) == [head |-> p, tail |-> p]

\* os.path.split(p) as [head, tail]
PosixSplit(p) ==
    LET i == RFindSlash(p)
        head == SubSeq(p, 1, i)
        tail == SubSeq(p, i + 1, Len(p))
    IN  [head |-> IF head # <<>> /\ ~AllSlashes(head) THEN RStripSlash(head) ELSE head,
         tail |-> tail]

\* os.path.join(*components) for components that hold no separator
RECURSIVE PosixJoin(_)
PosixJoin(components) ==
    IF Len(components) = 1 THEN components[1]
    ELSE components[1] \o <<Slash>> \o PosixJoin(Tail(components))

(***************************************************************************)
(* _LocateAFF4Volume                                                       *)
(***************************************************************************)
NotFound == [kind |-> "IOError", volume |-> <<>>, stream |-> None]
Located(volume, stream) == [kind |-> "ok", volume |-> volume, stream |-> stream]

StreamNameAppended(stream_name, stream_component) ==
    Append(stream_name, stream_component)

\* stream_name.insert(0, stream_component)
StreamNameInsert(stream_name, stream_component) ==
    <<stream_component>> \o stream_name

\* The while loop, entered with volume_path and stream_name; opens is the set
\* of paths that AFF4FactoryOpen opens without an IOError.
RECURSIVE LocateLoop(_, _, _)
LocateLoop(volume_path, stream_name, opens) ==
    IF volume_path = <<>> THEN NotFound
    ELSE IF volume_path \in opens
    THEN IF stream_name # <<>>
         THEN Located(volume_path, Some(PosixJoin(stream_name)))
         ELSE Located(volume_path, None)
    ELSE LET sp == PosixSplit(volume_path) IN
         IF sp.tail = <<>> THEN NotFound
         ELSE LocateLoop(sp.head, StreamNameInsert(stream_name, sp.tail), opens)

LocateAFF4Volume(filename, opens) == LocateLoop(filename, <<>>, opens)

(***************************************************************************)
(* Dictionaries are functions; d[k] = v is written Put(d, k, v).           *)
(***************************************************************************)
EmptyDict == << >>
Put(d, k, v) == [x \in DOMAIN d \cup {k} |-> IF x = k THEN v ELSE d[x]]

\* utils.CaseInsensitiveDictLookup(key, dictionary): the exact key when it is
\* there, else the value of a key equal to it up to letter case, else None.
\* The results it can give (a dictionary has no order among such keys).
CaseInsensitiveDictLookup(key, dictionary) ==
    IF key \in DOMAIN dictionary THEN {Some(dictionary[key])}
    ELSE LET alike == {k \in DOMAIN dictionary : Lower(k) = Lower(key)} IN
         IF alike = {} THEN {None} ELSE {Some(dictionary[k]) : k \in alike}

(***************************************************************************)
(* The run table (addrspace.MultiRunBasedAddressSpace).                    *)
(***************************************************************************)
Run(start, file_offset, length, stream) ==
    [start |-> start, file_offset |-> file_offset, length |-> length, stream |-> stream]

RunEnd(r) == r.start + r.length

Overlap(a, b) ==
    /\ a.length > 0 /\ b.length > 0
    /\ a.start < RunEnd(b) /\ b.start < RunEnd(a)

\* What is left of run x once run r is laid over it (last writer wins).
Remainder(x, r) ==
    IF x.start = r.start THEN {}
    ELSE IF ~Overlap(x, r) THEN {x}
    ELSE (IF x.start < r.start
          THEN {Run(x.start, x.file_offset, r.start - x.start, x.stream)}
          ELSE {})
         \cup
         (IF RunEnd(x) > RunEnd(r)
          THEN {Run(RunEnd(r), x.file_offset + (RunEnd(r) - x.start),
                    RunEnd(x) - RunEnd(r), x.stream)}
          ELSE {})

\* self.runs.insert(run), self.add_run(...)
RunsInsert(table, r) == UNION {Remainder(x, r) : x \in table} \cup {r}

\* self.end()
End(table) ==
    IF table = {} THEN 0
    ELSE LET ends == {RunEnd(r) : r \in table} IN
         CHOOSE e \in ends : \A f \in ends : f <= e

(***************************************************************************)
(* The container volume: what the resolver reports.                        *)
(***************************************************************************)
PAGE_SIZE == 4096
GAP == 65536

VolumeSubject == "v0"
Subjects == {"s1", "s2", "s3"}
MemoryPhysical == "memory:physical"
OtherCategory == "other"

Range(map_offset, length) == [map_offset |-> map_offset, length |-> length]

\* kind: "image" has no GetRanges, "map" has.
Stream(rel, kind, size, ranges) ==
    [rel |-> rel, kind |-> kind, size |-> size, ranges |-> ranges]

Triple(subject, value) == [subject |-> subject, value |-> value]

HalfPage == PAGE_SIZE \div 2

MemoryStreams ==
    { Stream(<<"m">>, "image", n, <<>>) : n \in {0, PAGE_SIZE, PAGE_SIZE + HalfPage} }
    \cup
    { Stream(<<"m">>, "map", 4 * PAGE_SIZE, r) :
        r \in { <<>>,
                <<Range(0, PAGE_SIZE), Range(3 * PAGE_SIZE, HalfPage)>> } }

CategoryTriples ==
    { <<>>,
      <<Triple("s1", MemoryPhysical)>>,
      <<Triple("s3", OtherCategory)>>,
      <<Triple("s3", OtherCategory), Triple("s1", MemoryPhysical), Triple("s2", MemoryPhysical)>>,
      <<Triple("s2", MemoryPhysical), Triple("s1", MemoryPhysical)>> }

NameDriveSlash == <<"C", ":", "/", "x">>
NameDriveBack == <<"c", ":", "\\", "X">>
NameRelDrive == <<"/", "c", ":", "/", "X">>
NamePageUpper == <<"P">>
NamePageLower == <<"p">>
NameOther == <<"x">>
NameAbsent == <<"q">>

Volume(s1, s2, s3, category, original, order, is_volume) ==
    [ streams |-> [s \in Subjects |-> IF s = "s1" THEN s1 ELSE IF s = "s2" THEN s2 ELSE s3],
      category |-> category,
      original |-> original,
      subjects |-> order,
      is_volume |-> is_volume ]

ForwardOrder == <<VolumeSubject, "s1", "s2", "s3">>

MemoryVolume(m, c) ==
    Volume(m, Stream(NamePageLower, "image", HalfPage, <<>>),
           Stream(NameOther, "image", PAGE_SIZE, <<>>),
           c, <<>>, ForwardOrder, TRUE)

\* Volumes that differ in the primary stream, and in the category attributes.
MemoryVolumes ==
    { MemoryVolume(m, <<Triple("s1", MemoryPhysical)>>) : m \in MemoryStreams }
    \cup
    { MemoryVolume(Stream(<<"m">>, "image", PAGE_SIZE, <<>>), c) : c \in CategoryTriples }

\* A file that opens but is no container volume.
NotAVolume ==
    Volume(Stream(<<"m">>, "image", PAGE_SIZE, <<>>),
           Stream(NamePageLower, "image", HalfPage, <<>>),
           Stream(NameOther, "image", PAGE_SIZE, <<>>),
           <<Triple("s1", MemoryPhysical)>>, <<>>, ForwardOrder, FALSE)

OriginalOf(subject, name) ==
    IF name = <<>> THEN <<>> ELSE <<Triple(subject, name)>>

\* Volumes that differ in the names and sizes of the embedded files.
FileVolumes ==
    { Volume(Stream(<<"m">>, "image", PAGE_SIZE + HalfPage, <<>>),
             Stream(r2, "image", IF r3 = NameOther THEN 0 ELSE HalfPage, <<>>),
             Stream(r3, "image", PAGE_SIZE, <<>>),
             <<Triple("s1", MemoryPhysical)>>,
             OriginalOf("s2", a2) \o OriginalOf("s3", a3),
             ForwardOrder, TRUE) :
        r2 \in {NamePageLower, NameRelDrive},
        a2 \in {<<>>, NameDriveSlash, NamePageUpper},
        r3 \in {NamePageUpper, NameOther},
        a3 \in {<<>>, NamePageLower} }

Volumes == MemoryVolumes \cup {NotAVolume} \cup FileVolumes

\* volume_urn.RelativePath(subject)
RelativePath(v, subject) ==
    IF subject = VolumeSubject THEN <<>> ELSE v.streams[subject].rel

\* The file system: the one path that AFF4FactoryOpen opens.
VolumePath == <<"v">>
FsOpens == {VolumePath}

ConstructPaths ==
    { VolumePath,
      VolumePath \o <<Slash, "m">>,
      VolumePath \o <<Slash, "q">>,
      <<"n">> }

\* volume.urn.Append(stream_path): the subjects of that relative name
SubjectsNamed(v, stream_path) == {s \in Subjects : v.streams[s].rel = stream_path}

(***************************************************************************)
(* _LoadMemoryImage                                                        *)
(***************************************************************************)
RECURSIVE InsertRanges(_, _, _)
InsertRanges(table, ranges, stream) ==
    IF ranges = <<>> THEN table
    ELSE InsertRanges(
            RunsInsert(table, Run(ranges[1].map_offset, ranges[1].map_offset,
                                  ranges[1].length, stream)),
            Tail(ranges), stream)

LoadWholeStream(table, v, subject) ==
    RunsInsert(table, Run(0, 0, v.streams[subject].size, subject))

\* The runs after _LoadMemoryImage(image_urn) opened the stream.
LoadMemoryImageRuns(table, v, subject) ==
    LET st == v.streams[subject] IN
    IF st.kind = "map"
    THEN InsertRanges(table, st.ranges, subject)
    ELSE RunsInsert(table, Run(0, 0, st.size, subject))

(***************************************************************************)
(* _AutoLoadAFF4Volume                                                     *)
(***************************************************************************)
PhysicalPositions(category) ==
    {i \in 1..Len(category) : category[i].value = MemoryPhysical}

LastPhysical(category) ==
    LET at == PhysicalPositions(category) IN
    IF at = {} THEN None
    ELSE Some(category[CHOOSE i \in at : \A j \in at : j <= i].subject)

\* The subject the category loop hands to _LoadMemoryImage before it breaks.
FirstPhysical(category) ==
    LET at == PhysicalPositions(category) IN
    IF at = {} THEN None
    ELSE Some(category[CHOOSE i \in at : \A j \in at : i <= j].subject)

\* self.filenames[unicode(value).lower()] = subject, triple by triple
RECURSIVE IndexOriginal(_, _)
IndexOriginal(index, original) ==
    IF original = <<>> THEN index
    ELSE IndexOriginal(Put(index, Lower(original[1].value), original[1].subject),
                       Tail(original))

\* self.filenames[self._normalize_filename(relative_name)] = subject
RECURSIVE IndexRelative(_, _, _)
IndexRelative(index, v, subjects) ==
    IF subjects = <<>> THEN index
    ELSE LET relative_name == RelativePath(v, subjects[1]) IN
         IndexRelative(
            IF relative_name # <<>>
            THEN Put(index, NormalizeFilename(relative_name), subjects[1])
            ELSE index,
            v, Tail(subjects))

BuildFilenames(v) ==
    IndexRelative(IndexOriginal(EmptyDict, v.original), v, v.subjects)

(***************************************************************************)
(* __init__                                                                *)
(***************************************************************************)
UnableToOpen == "ASAssertionError: Unable to open AFF4 volume"
NoPhysicalMemory == "ASAssertionError: No physical memory categories found."
RawIOError == "IOError"
NoError == "none"

Outcome(state, error, im, table, index, loaded) ==
    [state |-> state, error |-> error, image |-> im, runs |-> table,
     filenames |-> index, loaded |-> loaded]

Raise(error, loaded) == Outcome("Failed", error, None, {}, None, loaded)

\* _AutoLoadAFF4Volume(volume_path) inside the try of __init__
AutoLoad(v) ==
    IF ~v.is_volume THEN Raise(UnableToOpen, <<>>)
    ELSE LET first == FirstPhysical(v.category) IN
         IF first = None THEN Raise(NoPhysicalMemory, <<>>)
         ELSE Outcome("Ready", NoError, first, LoadMemoryImageRuns({}, v, first[1]),
                      Some(BuildFilenames(v)), <<first[1]>>)

\* The explicit-stream branch of __init__
ExplicitLoad(v, stream_path) ==
    IF ~v.is_volume THEN Raise(RawIOError, <<>>)
    ELSE LET named == SubjectsNamed(v, stream_path) IN
         IF named = {} THEN Raise(RawIOError, <<>>)
         ELSE LET s == CHOOSE x \in named : TRUE IN
              Outcome("Ready", NoError, Some(s), LoadMemoryImageRuns({}, v, s),
                      None, <<s>>)

\* AFF4AddressSpace(filename=path)
Init_(v, path) ==
    LET located == LocateAFF4Volume(path, FsOpens) IN
    IF located.kind = "IOError" THEN Raise(UnableToOpen, <<>>)
    ELSE IF located.stream = None \/ located.stream = Some(<<>>)
    THEN AutoLoad(v)
    ELSE ExplicitLoad(v, located.stream[1])

(***************************************************************************)
(* file_mapping_offset and get_mapped_offset                               *)
(***************************************************************************)
MappedOffsetAlignedUp(end) ==
    LET x == end + GAP IN
    IF x % PAGE_SIZE = 0 THEN x ELSE x - (x % PAGE_SIZE) + PAGE_SIZE

\* (self.end() + 0x10000) & 0xFFFFFFFFFFFFF000, for end + 0x10000 < 2^64
MappedOffset(end) ==
    LET x == end + GAP IN x - (x % PAGE_SIZE)

\* file_mapping_offset(filename) as [offset, session, assigned]
FileMappingOffset(filename, session, table) ==
    IF filename \in DOMAIN session
    THEN [offset |-> session[filename], session |-> session, assigned |-> FALSE]
    ELSE LET mapped_offset == MappedOffset(End(table)) IN
         [offset |-> mapped_offset,
          session |-> Put(session, filename, mapped_offset),
          assigned |-> TRUE]

NegativeEntry == 0 - 1

CacheSkipped(cache, filename, mapped_offset) == cache

\* self.mapped_files[filename] = mapped_offset
CacheForNextTime(cache, filename, mapped_offset) ==
    Put(cache, filename, mapped_offset)

FileNames == {NameDriveSlash, NameDriveBack, NamePageUpper, NamePageLower, NameAbsent}
FileOffsets == {0, 16}

(***************************************************************************)
(* describe, and the lookup and read of the run table                      *)
(* (addrspace.MultiRunBasedAddressSpace).                                  *)
(***************************************************************************)
\* self.runs.find_le(address): the run with the greatest start <= address;
\* None stands for the ValueError raised when there is none.
FindLE(table, address) ==
    LET le == {r \in table : r.start <= address} IN
    IF le = {} THEN None
    ELSE Some(CHOOSE r \in le : \A q \in le : q.start <= r.start)

\* The three forms describe renders: u"%#x", u"%#x @ %s (Mapped %#x)" and
\* u"%#x (Unmapped)".
Bare(address) ==
    [form |-> "bare", address |-> address, offset |-> 0, stream |-> None]
Mapped(offset, stream, address) ==
    [form |-> "mapped", address |-> address, offset |-> offset, stream |-> Some(stream)]
Unmapped(address) ==
    [form |-> "unmapped", address |-> address, offset |-> 0, stream |-> None]

\* describe(address).  A run's stream is the subject it was opened from; the
\* primary stream is never mapped a second time as an overlay here, so that
\* stream_as == self.image is the equality of subjects.
DescribeAddress(table, im, address) ==
    LET found == FindLE(table, address) IN
    IF found = None THEN Unmapped(address)
    ELSE IF Some(found[1].stream) = im THEN Bare(address)
    ELSE Mapped(address - found[1].start + found[1].file_offset,
                found[1].stream, address)

\* The run that owns address: the one find_le gives, when address lies below
\* its end.
Covering(table, address) ==
    LET found == FindLE(table, address) IN
    IF found # None /\ address < RunEnd(found[1]) THEN found ELSE None

Min(a, b) == IF a <= b THEN a ELSE b

\* The bytes of one sub-read: length bytes of stream from offset on, or
\* length zero bytes when stream is None.
Segment(stream, offset, length) ==
    [stream |-> stream, offset |-> offset, length |-> length]

ZeroFillWhole(table, address, length) == length

\* The distance from address to the next run above it, at most length.
ZeroFill(table, address, length) ==
    LET above == {r.start : r \in {q \in table : q.start > address}} IN
    IF above = {} THEN length
    ELSE Min(length, (CHOOSE s \in above : \A t \in above : s <= t) - address)

\* read(address, length): one sub-read per run the range touches, zero fill
\* where no run owns the address.
RECURSIVE ReadSegments(_, _, _)
ReadSegments(table, address, length) ==
    IF length = 0 THEN <<>>
    ELSE LET c == Covering(table, address) IN
         IF c # None
         THEN LET n == Min(length, RunEnd(c[1]) - address) IN
              <<Segment(Some(c[1].stream), c[1].file_offset + (address - c[1].start), n)>>
                  \o ReadSegments(table, address + n, length - n)
         ELSE LET n == ZeroFill(table, address, length) IN
              <<Segment(None, 0, n)>> \o ReadSegments(table, address + n, length - n)

(***************************************************************************)
(* _parse_physical_memory_metadata                                         *)
(***************************************************************************)
\* What yaml_utils.decode gives for information.yaml: no such stream, a YAML
\* sequence, or a mapping.  registers is the value under "Registers" (None
\* when the key is missing), kernbase the value under "KernBase".
MissingMetadata == [kind |-> "missing", registers |-> None, kernbase |-> None]
SequenceMetadata == [kind |-> "sequence", registers |-> None, kernbase |-> None]
MappingMetadata(registers, kernbase) ==
    [kind |-> "mapping", registers |-> registers, kernbase |-> kernbase]

ScalarRegisters == [kind |-> "scalar", cr3 |-> None]
Registers(cr3) == [kind |-> "mapping", cr3 |-> cr3]

\* the default of metadata.get("Registers", {})
NoRegisters == Registers(None)

ImageCR3 == 1601536
ImageKernBase == 8192
UserDtb == 28672
UserKernelBase == 12288

Metadatas ==
    {MissingMetadata, SequenceMetadata}
    \cup { MappingMetadata(r, k) :
             r \in {None, Some(ScalarRegisters), Some(NoRegisters), Some(Registers(Some(ImageCR3)))},
             k \in {None, Some(ImageKernBase)} }

\* The session's parameters: those the user set, and the cache.
SessionParams(explicit, cache) == [explicit |-> explicit, cache |-> cache]
NoParams == SessionParams(EmptyDict, EmptyDict)

UserParams ==
    { SessionParams(e, EmptyDict) :
        e \in { EmptyDict,
                [n \in {"dtb"} |-> UserDtb],
                [n \in {"kernel_base"} |-> UserKernelBase],
                [n \in {"dtb", "kernel_base"} |-> IF n = "dtb" THEN UserDtb ELSE UserKernelBase] } }

HasParameterNever(session, name) == FALSE

\* session.HasParameter(name)
HasParameter(session, name) == name \in DOMAIN session.explicit

\* session.SetCache(name, value, volatile=False)
SetCache(session, name, value) ==
    [session EXCEPT !.cache = Put(@, name, value)]

AttributeError == "AttributeError"

Parsed(session, error, warned) ==
    [session |-> session, error |-> error, warned |-> warned]

\* if not session.HasParameter("dtb"): session.SetCache("dtb", ...)
ParseDtb(session, md) ==
    IF HasParameter(session, "dtb") THEN Parsed(session, NoError, FALSE)
    ELSE IF md.kind # "mapping" THEN Parsed(session, AttributeError, FALSE)
    ELSE LET registers == IF md.registers = None THEN NoRegisters ELSE md.registers[1] IN
         IF registers.kind # "mapping" THEN Parsed(session, AttributeError, FALSE)
         ELSE Parsed(SetCache(session, "dtb", registers.cr3), NoError, FALSE)

\* if not session.HasParameter("kernel_base"): session.SetCache("kernel_base", ...)
ParseKernelBase(session, md) ==
    IF HasParameter(session, "kernel_base") THEN Parsed(session, NoError, FALSE)
    ELSE IF md.kind # "mapping" THEN Parsed(session, AttributeError, FALSE)
    ELSE Parsed(SetCache(session, "kernel_base", md.kernbase), NoError, FALSE)

\* _parse_physical_memory_metadata(session, image_urn): only the IOError of
\* a missing side-stream is caught, with a warning.
ParsePhysicalMemoryMetadata(session, md) ==
    IF md.kind = "missing" THEN Parsed(session, NoError, TRUE)
    ELSE LET dtb == ParseDtb(session, md) IN
         IF dtb.error # NoError THEN dtb
         ELSE ParseKernelBase(dtb.session, md)

\* What describe, read or ConfigureSession gave, with the session's parameters
\* and the run table it was called on.
View(op, address, length, ret, error, warned, before, table) ==
    [op |-> op, address |-> address, length |-> length, ret |-> ret,
     error |-> error, warned |-> warned, before |-> before, table |-> table]

NoView == View("none", 0, 0, None, NoError, FALSE, NoParams, {})

(***************************************************************************)
(* CollectAction.run (rekall_agent/client_actions/collect.py).             *)
(***************************************************************************)
MaxRows == 3
MaxTables == 2
RowValues == {"r1", "r2"}

RECURSIVE RowsUpTo(_)
RowsUpTo(n) ==
    IF n = 0 THEN {<<>>}
    ELSE LET shorter == RowsUpTo(n - 1) IN
         shorter \cup {Append(s, r) : s \in {t \in shorter : Len(t) = n - 1}, r \in RowValues}

\* What self.collect() will yield, and whether the query raises once it has
\* yielded that much.
Queries == RowsUpTo(MaxRows)

TypeError == "TypeError: Only a single table is supported."
QueryError == "error raised by the query"

\* tables: len(self.collection.tables); state, rows: the collection; log: the
\* calls made on the collection; pc: the position in run.
Collect(tables, query, raises, all, state, rows, log, at, error, result) ==
    [tables |-> tables, query |-> query, raises |-> raises, all |-> all,
     state |-> state, rows |-> rows, log |-> log, pc |-> at, error |-> error,
     result |-> result]

NoCollect == Collect(1, <<>>, FALSE, <<>>, "new", <<>>, <<>>, "idle", NoError, None)

InsertRowFirst(rows, row) == <<row>> \o rows

\* self.collection.insert(row=row)
InsertRow(rows, row) == Append(rows, row)

(***************************************************************************)
(* The address space in a session: construction and get_mapped_offset.     *)
(***************************************************************************)
MaxInstances == 2

\* The record of a call: its arguments, what it raised or returned, and which
\* steps of the code it went through.
Call(op, arg, file_offset, key, error, ret, loaded, hit, index_lookup, opened, inserted, assigned, end_before, base) ==
    [op |-> op, arg |-> arg, file_offset |-> file_offset, key |-> key,
     first |-> key \notin DOMAIN first_call,
     error |-> error, ret |-> ret, loaded |-> loaded, hit |-> hit,
     index_lookup |-> index_lookup, opened |-> opened, inserted |-> inserted,
     assigned |-> assigned, end_before |-> end_before, base |-> base]

NoCall ==
    [Call("none", <<>>, 0, <<>>, NoError, None, <<>>, FALSE, FALSE, FALSE, FALSE,
          FALSE, 0, None) EXCEPT !.first = FALSE]

\* What the first call for key gave: the base offset it resolved to (None when
\* it returned None) and the stream it mapped.
Remember(key, base, subject) ==
    IF key \in DOMAIN first_call THEN first_call
    ELSE Put(first_call, key, [base |-> base, subject |-> subject])

BaseOf(mapped_offset) == IF mapped_offset > 0 THEN Some(mapped_offset) ELSE None

AsIdle ==
    /\ vol = NotAVolume
    /\ file_mappings = EmptyDict
    /\ ninst = 0
    /\ as_state = "Unopened"
    /\ image = None
    /\ runs = {}
    /\ filenames = None
    /\ mapped_files = EmptyDict
    /\ first_call = EmptyDict
    /\ last = NoCall

NormIdle ==
    /\ norm_in = <<>>
    /\ norm_out = Pending

LocIdle ==
    /\ loc_path = <<>>
    /\ loc_opens = {}
    /\ loc_result = Pending

UseIdle ==
    /\ view = NoView
    /\ metadata = MissingMetadata
    /\ params = NoParams

ThreadsIdle ==
    /\ pc = <<>>
    /\ thr = <<>>

LoopIdle ==
    /\ cur_volume_path = <<>>
    /\ cur_stream_name = <<>>

CollectIdle == coll = NoCollect

(***************************************************************************)
(* The specification of the address space.                                 *)
(***************************************************************************)
Init ==
    /\ vol \in Volumes
    /\ file_mappings = EmptyDict
    /\ ninst = 0
    /\ as_state = "Unopened"
    /\ image = None
    /\ runs = {}
    /\ filenames = None
    /\ mapped_files = EmptyDict
    /\ first_call = EmptyDict
    /\ last = NoCall
    /\ NormIdle
    /\ LocIdle
    /\ UseIdle /\ ThreadsIdle /\ LoopIdle /\ CollectIdle

\* AFF4AddressSpace(filename=path, session=session): a new address space in
\* the session, in place of the one before.
Construct(path) ==
    /\ ninst < MaxInstances
    /\ LET o == Init_(vol, path) IN
       /\ as_state' = o.state
       /\ image' = o.image
       /\ runs' = o.runs
       /\ filenames' = o.filenames
       /\ last' = [Call("init", path, 0, <<>>, o.error, None, o.loaded, FALSE,
                        FALSE, FALSE, FALSE, FALSE, 0, None) EXCEPT !.first = FALSE]
    /\ mapped_files' = EmptyDict
    /\ first_call' = EmptyDict
    /\ ninst' = ninst + 1
    /\ UNCHANGED <<vol, file_mappings, normVars, locVars, useVars, threadVars, loopVars, collVars>>

ReturnedUnchecked(mapped_offset, file_offset) ==
    Some(mapped_offset + file_offset)

\* if mapped_offset > 0: return mapped_offset + file_offset (else None)
Returned(mapped_offset, file_offset) ==
    IF mapped_offset > 0 THEN Some(mapped_offset + file_offset) ELSE None

\* get_mapped_offset(filename, file_offset) answered from self.mapped_files
GetMappedOffsetCached(filename, file_offset, key, mapped_offset) ==
    /\ mapped_files' = CacheForNextTime(mapped_files, key, mapped_offset)
    /\ last' = Call("get_mapped_offset", filename, file_offset, key, NoError,
                    Returned(mapped_offset, file_offset), <<>>, TRUE, FALSE,
                    FALSE, FALSE, FALSE, End(runs), Some(mapped_offset))
    /\ first_call' = Remember(key, BaseOf(mapped_offset), None)
    /\ UNCHANGED <<runs, file_mappings>>

\* get_mapped_offset raises AttributeError: there is no self.filenames
GetMappedOffsetRaises(filename, file_offset, key) ==
    /\ last' = Call("get_mapped_offset", filename, file_offset, key,
                    "AttributeError", None, <<>>, FALSE, FALSE, FALSE, FALSE,
                    FALSE, End(runs), None)
    /\ UNCHANGED <<runs, file_mappings, mapped_files, first_call>>

\* get_mapped_offset maps the stream of subject into the address space
GetMappedOffsetMaps(filename, file_offset, key, subject) ==
    LET fm == FileMappingOffset(key, file_mappings, runs) IN
    /\ runs' = RunsInsert(runs, Run(fm.offset, 0, vol.streams[subject].size, subject))
    /\ file_mappings' = fm.session
    /\ mapped_files' = CacheForNextTime(mapped_files, key, fm.offset)
    /\ last' = Call("get_mapped_offset", filename, file_offset, key, NoError,
                    Returned(fm.offset, file_offset), <<subject>>, FALSE, TRUE,
                    TRUE, TRUE, fm.assigned, End(runs), Some(fm.offset))
    /\ first_call' = Remember(key, BaseOf(fm.offset), Some(subject))

\* get_mapped_offset finds no such file and caches the failure
GetMappedOffsetMisses(filename, file_offset, key) ==
    /\ mapped_files' = CacheForNextTime(mapped_files, key, NegativeEntry)
    /\ last' = Call("get_mapped_offset", filename, file_offset, key, NoError,
                    Returned(NegativeEntry, file_offset), <<>>, FALSE, TRUE,
                    FALSE, FALSE, FALSE, End(runs), Some(NegativeEntry))
    /\ first_call' = Remember(key, None, None)
    /\ UNCHANGED <<runs, file_mappings>>

GetMappedOffset(filename, file_offset) ==
    /\ as_state = "Ready"
    /\ LET key == NormalizeFilename(filename) IN
       \E cached \in CaseInsensitiveDictLookup(key, mapped_files) :
          IF cached # None
          THEN GetMappedOffsetCached(filename, file_offset, key, cached[1])
          ELSE IF filenames = None
          THEN GetMappedOffsetRaises(filename, file_offset, key)
          ELSE \E subject \in CaseInsensitiveDictLookup(key, filenames[1]) :
                  IF subject = None
                  THEN GetMappedOffsetMisses(filename, file_offset, key)
                  ELSE GetMappedOffsetMaps(filename, file_offset, key, subject[1])
    /\ UNCHANGED <<vol, ninst, as_state, image, filenames, normVars, locVars,
                   useVars, threadVars, loopVars, collVars>>

Next ==
    \/ \E path \in ConstructPaths : Construct(path)
    \/ \E filename \in FileNames, file_offset \in FileOffsets :
          GetMappedOffset(filename, file_offset)

Spec == Init /\ [][Next]_vars

(***************************************************************************)
(* The filenames the normalisation is exercised on.                        *)
(***************************************************************************)
Ex1 == <<"c", ":", "\\", "W", "i", "n", "d", "o", "w", "s", "\\", "S", "y", "s", "t", "e", "m", "3", "2", "\\", "d", "r", "i", "v", "e", "r", "s", "\\", "x", ".", "s", "y", "s">>
Ex2 == <<"/", "C", ":", "/", "W", "I", "N", "D", "O", "W", "S", "/", "S", "Y", "S", "T", "E", "M", "3", "2", "/", "D", "R", "I", "V", "E", "R", "S", "/", "X", ".", "S", "Y", "S">>
Ex3 == <<"c", ":", "/", "w", "i", "n", "d", "o", "w", "s", "/", "s", "y", "s", "n", "a", "t", "i", "v", "e", "/", "d", "r", "i", "v", "e", "r", "s", "/", "x", ".", "s", "y", "s">>

NormLeads == {<<>>, <<Slash>>}
NormDrives == {<<"c">>, <<"C">>}
NormSeps == {<<Slash>>, <<BackSlash>>}
NormSegments ==
    { SysNative, Lower(SysNative), <<"S", "Y", "S", "N", "A", "T", "I", "V", "E">>,
      System32, Lower(System32), <<"x">>, <<"X">> }
NormTails == {<<>>, <<"x">>, <<"X">>}

DrivePaths ==
    { l \o d \o <<":">> \o s1 \o g \o (IF t = <<>> THEN <<>> ELSE s2 \o t) :
        l \in NormLeads, d \in NormDrives, s1 \in NormSeps, g \in NormSegments,
        s2 \in NormSeps, t \in NormTails }

PlainPaths ==
    { <<"p">>, <<"P">>, <<"a", "/", "B">>, <<"/", "e", "/", "X">>,
      <<"c", ":", "/">>, <<"C", ":">>, <<"\\", "c", ":", "\\", "X">>,
      <<"1", ":", "/", "X">>, SysNative, <<"a", "/">> \o SysNative }

NormInputs == DrivePaths \cup PlainPaths \cup {Ex1, Ex2, Ex3}

(***************************************************************************)
(* The specification of the normalisation alone.                           *)
(***************************************************************************)
NormInit ==
    /\ norm_in \in NormInputs
    /\ norm_out = Pending
    /\ LocIdle
    /\ AsIdle
    /\ UseIdle /\ ThreadsIdle /\ LoopIdle /\ CollectIdle

Normalize ==
    /\ norm_out = Pending
    /\ norm_out' = Some(NormalizeFilename(norm_in))
    /\ UNCHANGED <<norm_in, locVars, asVars, useVars, threadVars, loopVars, collVars>>

NormNext == Normalize

SpecNorm == NormInit /\ [][NormNext]_vars

(***************************************************************************)
(* The paths the volume resolution is exercised on: every string of at     *)
(* most MaxPathLen characters over PathChars, and the two worked examples. *)
(***************************************************************************)
MaxPathLen == 4
PathChars == {Slash, "a", "b"}

ExVolumePath == <<"/", "d", "a", "t", "a", "/", "i", "m", "a", "g", "e", ".", "a", "f", "f", "4">>
ExStreamPath == ExVolumePath \o <<"/", "P", "h", "y", "s", "i", "c", "a", "l", "M", "e", "m", "o", "r", "y">>

RECURSIVE StringsUpTo(_)
StringsUpTo(n) ==
    IF n = 0 THEN {<<>>}
    ELSE LET shorter == StringsUpTo(n - 1) IN
         shorter \cup {Append(s, c) : s \in {t \in shorter : Len(t) = n - 1}, c \in PathChars}

LocPaths == StringsUpTo(MaxPathLen) \cup {ExVolumePath, ExStreamPath}

\* p, its head, the head's head, ... down to the root or the empty path
RECURSIVE Heads(_)
Heads(p) ==
    LET h == PosixSplit(p).head IN
    IF h = p \/ p = <<>> THEN {p} ELSE {p} \cup Heads(h)

\* A trailing separator does not change which file a path names.
SameFile(p, q) ==
    \/ p = q
    \/ ~AllSlashes(p) /\ ~AllSlashes(q) /\ RStripSlash(p) = RStripSlash(q)

OpenSets(p) ==
    { o \in SUBSET (Heads(p) \ {<<>>}) :
        \A x \in o, y \in Heads(p) \ {<<>>} : SameFile(x, y) => y \in o }

LocInit ==
    /\ loc_path \in LocPaths
    /\ loc_opens \in OpenSets(loc_path)
    /\ loc_result = Pending
    /\ NormIdle
    /\ AsIdle
    /\ UseIdle /\ ThreadsIdle /\ LoopIdle /\ CollectIdle

Locate ==
    /\ loc_result = Pending
    /\ loc_result' = Some(LocateAFF4Volume(loc_path, loc_opens))
    /\ UNCHANGED <<loc_path, loc_opens, normVars, asVars, useVars, threadVars, loopVars, collVars>>

LocNext == Locate

SpecLocate == LocInit /\ [][LocNext]_vars

(***************************************************************************)
(* The address space in use: describe, read and ConfigureSession on the    *)
(* one address space of a session.                                         *)
(***************************************************************************)
ViewVolumes ==
    { MemoryVolume(m, <<Triple("s1", MemoryPhysical)>>) : m \in MemoryStreams }
    \cup { v \in FileVolumes : v.original = <<>> }

Addresses ==
    { 0, PAGE_SIZE - 1, PAGE_SIZE, PAGE_SIZE + HalfPage, 2 * PAGE_SIZE,
      3 * PAGE_SIZE + HalfPage, MappedOffset(PAGE_SIZE) + 16,
      MappedOffset(PAGE_SIZE) + HalfPage }

ReadRanges ==
    { <<0, PAGE_SIZE>>, <<2 * PAGE_SIZE, 16>>, <<PAGE_SIZE - 6, 20>>,
      <<3 * PAGE_SIZE - 8, HalfPage + 16>>, <<MappedOffset(PAGE_SIZE) - 4, HalfPage + 8>>,
      <<16, 0>> }

ViewInit ==
    /\ vol \in ViewVolumes
    /\ file_mappings = EmptyDict
    /\ ninst = 0
    /\ as_state = "Unopened"
    /\ image = None
    /\ runs = {}
    /\ filenames = None
    /\ mapped_files = EmptyDict
    /\ first_call = EmptyDict
    /\ last = NoCall
    /\ UseIdle
    /\ NormIdle /\ LocIdle /\ ThreadsIdle /\ LoopIdle /\ CollectIdle

\* The session's first address space.
Open(path) ==
    /\ ninst = 0
    /\ Construct(path)

\* describe(address)
Describe(address) ==
    /\ as_state = "Ready"
    /\ view' = View("describe", address, 0, DescribeAddress(runs, image, address),
                    NoError, FALSE, params, runs)
    /\ UNCHANGED <<asVars, metadata, params, normVars, locVars, threadVars, loopVars, collVars>>

\* read(address, length)
Read(address, length) ==
    /\ as_state = "Ready"
    /\ view' = View("read", address, length, ReadSegments(runs, address, length),
                    NoError, FALSE, params, runs)
    /\ UNCHANGED <<asVars, metadata, params, normVars, locVars, threadVars, loopVars, collVars>>

ViewNext ==
    \/ \E path \in ConstructPaths : Open(path)
    \/ \E filename \in {NamePageLower, NameOther, NameAbsent} : GetMappedOffset(filename, 0)
    \/ \E address \in Addresses : Describe(address)
    \/ \E range \in ReadRanges : Read(range[1], range[2])

SpecView == ViewInit /\ [][ViewNext]_vars

(***************************************************************************)
(* ConfigureSession on the address space of a session whose user has set   *)
(* dtb, kernel_base, both or neither.                                      *)
(***************************************************************************)
ConfigureVolume == MemoryVolume(Stream(<<"m">>, "image", PAGE_SIZE, <<>>), <<Triple("s1", MemoryPhysical)>>)

ConfigureInit ==
    /\ vol = ConfigureVolume
    /\ file_mappings = EmptyDict
    /\ ninst = 0
    /\ as_state = "Unopened"
    /\ image = None
    /\ runs = {}
    /\ filenames = None
    /\ mapped_files = EmptyDict
    /\ first_call = EmptyDict
    /\ last = NoCall
    /\ view = NoView
    /\ metadata \in Metadatas
    /\ params \in UserParams
    /\ NormIdle /\ LocIdle /\ ThreadsIdle /\ LoopIdle /\ CollectIdle

\* ConfigureSession(session)
ConfigureSession ==
    /\ as_state = "Ready"
    /\ LET parsed == ParsePhysicalMemoryMetadata(params, metadata) IN
       /\ params' = parsed.session
       /\ view' = View("configure", 0, 0, None, parsed.error, parsed.warned, params, runs)
    /\ UNCHANGED <<asVars, metadata, normVars, locVars, threadVars, loopVars, collVars>>

ConfigureNext ==
    \/ \E path \in ConstructPaths : Construct(path)
    \/ ConfigureSession

SpecConfigure == ConfigureInit /\ [][ConfigureNext]_vars

(***************************************************************************)
(* Two threads in get_mapped_offset on one Ready address space, each for   *)
(* a filename it has not asked for before; a step is one statement.        *)
(***************************************************************************)
Threads == {1, 2}

ThreadVolumes == { v \in FileVolumes : v.original = <<>> }

Locals(filename, key, mapped_offset, subject, ret) ==
    [filename |-> filename, key |-> key, mapped_offset |-> mapped_offset,
     subject |-> subject, ret |-> ret]

ThreadsInit ==
    /\ vol \in ThreadVolumes
    /\ file_mappings = EmptyDict
    /\ ninst = 1
    /\ mapped_files = EmptyDict
    /\ first_call = EmptyDict
    /\ LET o == Init_(vol, VolumePath) IN
       /\ as_state = o.state
       /\ image = o.image
       /\ runs = o.runs
       /\ filenames = o.filenames
       /\ last = [Call("init", VolumePath, 0, <<>>, o.error, None, o.loaded, FALSE,
                       FALSE, FALSE, FALSE, FALSE, 0, None) EXCEPT !.first = FALSE]
    /\ pc = [t \in Threads |-> "start"]
    /\ thr \in [Threads -> {Locals(f, <<>>, None, None, None) : f \in FileNames}]
    /\ UseIdle /\ NormIdle /\ LocIdle /\ LoopIdle /\ CollectIdle

ThreadFrame == <<vol, ninst, as_state, image, filenames, first_call, last,
                 useVars, normVars, locVars, loopVars, collVars>>

Goto(t, label) == pc' = [pc EXCEPT ![t] = label]

\* filename = self._normalize_filename(filename);
\* mapped_offset = utils.CaseInsensitiveDictLookup(filename, self.mapped_files)
ThreadStart(t) ==
    /\ pc[t] = "start"
    /\ LET key == NormalizeFilename(thr[t].filename) IN
       \E cached \in CaseInsensitiveDictLookup(key, mapped_files) :
          /\ thr' = [thr EXCEPT ![t].key = key, ![t].mapped_offset = cached]
          /\ Goto(t, IF cached = None THEN "lookup" ELSE "cache")
    /\ UNCHANGED <<runs, file_mappings, mapped_files, ThreadFrame>>

\* subject = utils.CaseInsensitiveDictLookup(filename, self.filenames)
ThreadLookup(t) ==
    /\ pc[t] = "lookup"
    /\ \E subject \in CaseInsensitiveDictLookup(thr[t].key, filenames[1]) :
          IF subject = None
          THEN /\ thr' = [thr EXCEPT ![t].mapped_offset = Some(NegativeEntry)]
               /\ Goto(t, "cache")
          ELSE /\ thr' = [thr EXCEPT ![t].subject = subject]
               /\ Goto(t, "open")
    /\ UNCHANGED <<runs, file_mappings, mapped_files, ThreadFrame>>

\* stream = self.resolver.AFF4FactoryOpen(subject)
ThreadOpen(t) ==
    /\ pc[t] = "open"
    /\ Goto(t, "session")
    /\ UNCHANGED <<thr, runs, file_mappings, mapped_files, ThreadFrame>>

\* file_mapping_offset: if filename in mapped_files: return the entry
ThreadSession(t) ==
    /\ pc[t] = "session"
    /\ IF thr[t].key \in DOMAIN file_mappings
       THEN /\ thr' = [thr EXCEPT ![t].mapped_offset = Some(file_mappings[thr[t].key])]
            /\ Goto(t, "add_run")
       ELSE /\ thr' = thr
            /\ Goto(t, "compute")
    /\ UNCHANGED <<runs, file_mappings, mapped_files, ThreadFrame>>

\* file_mapping_offset: mapped_offset = (self.end() + 0x10000) & 0xFFFFFFFFFFFFF000
ThreadCompute(t) ==
    /\ pc[t] = "compute"
    /\ thr' = [thr EXCEPT ![t].mapped_offset = Some(MappedOffset(End(runs)))]
    /\ Goto(t, "store")
    /\ UNCHANGED <<runs, file_mappings, mapped_files, ThreadFrame>>

\* file_mapping_offset: mapped_files[filename] = mapped_offset
ThreadStore(t) ==
    /\ pc[t] = "store"
    /\ file_mappings' = Put(file_mappings, thr[t].key, thr[t].mapped_offset[1])
    /\ Goto(t, "add_run")
    /\ UNCHANGED <<thr, runs, mapped_files, ThreadFrame>>

\* self.add_run(mapped_offset, 0, stream.Size(), AFF4StreamWrapper(stream))
ThreadAddRun(t) ==
    /\ pc[t] = "add_run"
    /\ runs' = RunsInsert(runs, Run(thr[t].mapped_offset[1], 0,
                                    vol.streams[thr[t].subject[1]].size, thr[t].subject[1]))
    /\ Goto(t, "cache")
    /\ UNCHANGED <<thr, file_mappings, mapped_files, ThreadFrame>>

\* self.mapped_files[filename] = mapped_offset, and the return
ThreadCache(t) ==
    /\ pc[t] = "cache"
    /\ mapped_files' = CacheForNextTime(mapped_files, thr[t].key, thr[t].mapped_offset[1])
    /\ thr' = [thr EXCEPT ![t].ret = Returned(thr[t].mapped_offset[1], 0)]
    /\ Goto(t, "done")
    /\ UNCHANGED <<runs, file_mappings, ThreadFrame>>

ThreadsNext ==
    \E t \in Threads :
        \/ ThreadStart(t)
        \/ ThreadLookup(t)
        \/ ThreadOpen(t)
        \/ ThreadSession(t)
        \/ ThreadCompute(t)
        \/ ThreadStore(t)
        \/ ThreadAddRun(t)
        \/ ThreadCache(t)

SpecThreads == ThreadsInit /\ [][ThreadsNext]_vars

(***************************************************************************)
(* _LocateAFF4Volume, one iteration of its loop at a time.                 *)
(***************************************************************************)
LoopInit ==
    /\ loc_path \in LocPaths
    /\ loc_opens \in OpenSets(loc_path)
    /\ loc_result = Pending
    /\ cur_volume_path = loc_path
    /\ cur_stream_name = <<>>
    /\ NormIdle /\ AsIdle /\ UseIdle /\ ThreadsIdle /\ CollectIdle

LoopFrame == <<loc_path, loc_opens, normVars, asVars, useVars, threadVars, collVars>>

\* while volume_path: ... is false; raise IOError("Not found")
LoopEnds ==
    /\ loc_result = Pending
    /\ cur_volume_path = <<>>
    /\ loc_result' = Some(NotFound)
    /\ UNCHANGED <<cur_volume_path, cur_stream_name, LoopFrame>>

\* AFF4FactoryOpen(volume_urn) succeeds: return
LoopOpens ==
    /\ loc_result = Pending
    /\ cur_volume_path # <<>>
    /\ cur_volume_path \in loc_opens
    /\ loc_result' = Some(Located(cur_volume_path,
                                  IF cur_stream_name # <<>> THEN Some(PosixJoin(cur_stream_name)) ELSE None))
    /\ UNCHANGED <<cur_volume_path, cur_stream_name, LoopFrame>>

\* except IOError: split, and break when there is no component
LoopBreaks ==
    /\ loc_result = Pending
    /\ cur_volume_path # <<>>
    /\ cur_volume_path \notin loc_opens
    /\ PosixSplit(cur_volume_path).tail = <<>>
    /\ cur_volume_path' = PosixSplit(cur_volume_path).head
    /\ loc_result' = Some(NotFound)
    /\ UNCHANGED <<cur_stream_name, LoopFrame>>

\* except IOError: split, and go round again with the component remembered
LoopSplits ==
    /\ loc_result = Pending
    /\ cur_volume_path # <<>>
    /\ cur_volume_path \notin loc_opens
    /\ PosixSplit(cur_volume_path).tail # <<>>
    /\ cur_volume_path' = PosixSplit(cur_volume_path).head
    /\ cur_stream_name' = StreamNameInsert(cur_stream_name, PosixSplit(cur_volume_path).tail)
    /\ UNCHANGED <<loc_result, LoopFrame>>

LoopNext ==
    \/ LoopEnds
    \/ LoopOpens
    \/ LoopBreaks
    \/ LoopSplits

\* The loop is not held up: an iteration that can run does run.
SpecLoop == LoopInit /\ [][LoopNext]_vars /\ WF_vars(LoopNext)

(***************************************************************************)
(* CollectAction.run, statement by statement.                              *)
(***************************************************************************)
CollectInit ==
    /\ coll \in { Collect(n, q, r, q, "new", <<>>, <<>>, "check", NoError, None) :
                    n \in 0..MaxTables, q \in Queries, r \in BOOLEAN }
    /\ NormIdle /\ LocIdle /\ AsIdle /\ UseIdle /\ ThreadsIdle /\ LoopIdle

CollectFrame == <<normVars, locVars, asVars, useVars, threadVars, loopVars>>

\* if len(self.collection.tables) != 1: raise TypeError(...)
CheckTables ==
    /\ coll.pc = "check"
    /\ coll' = IF coll.tables # 1
               THEN [coll EXCEPT !.pc = "raised", !.error = TypeError]
               ELSE [coll EXCEPT !.pc = "open"]
    /\ UNCHANGED CollectFrame

\* self.collection.open("w")
OpenCollection ==
    /\ coll.pc = "open"
    /\ coll' = [coll EXCEPT !.state = "open", !.log = Append(@, "open"), !.pc = "loop"]
    /\ UNCHANGED CollectFrame

\* for row in self.collect(): self.collection.insert(row=row)
InsertNext ==
    /\ coll.pc = "loop"
    /\ coll.query # <<>>
    /\ coll' = [coll EXCEPT !.rows = InsertRow(@, coll.query[1]),
                            !.log = Append(@, "insert"),
                            !.query = Tail(@)]
    /\ UNCHANGED CollectFrame

\* the query raises: run is left with the collection as it is
QueryRaises ==
    /\ coll.pc = "loop"
    /\ coll.query = <<>>
    /\ coll.raises
    /\ coll' = [coll EXCEPT !.pc = "raised", !.error = QueryError]
    /\ UNCHANGED CollectFrame

\* the generator is exhausted
LoopDone ==
    /\ coll.pc = "loop"
    /\ coll.query = <<>>
    /\ ~coll.raises
    /\ coll' = [coll EXCEPT !.pc = "close"]
    /\ UNCHANGED CollectFrame

\* self.collection.close()
CloseCollection ==
    /\ coll.pc = "close"
    /\ coll' = [coll EXCEPT !.state = "closed", !.log = Append(@, "close"), !.pc = "return"]
    /\ UNCHANGED CollectFrame

\* return [self.collection]
ReturnCollection ==
    /\ coll.pc = "return"
    /\ coll' = [coll EXCEPT !.pc = "returned", !.result = Some(coll.state)]
    /\ UNCHANGED CollectFrame

CollectNext ==
    \/ CheckTables
    \/ OpenCollection
    \/ InsertNext
    \/ QueryRaises
    \/ LoopDone
    \/ CloseCollection
    \/ ReturnCollection

SpecCollect == CollectInit /\ [][CollectNext]_vars


(***************************************************************************)
(* C8.  The prefixes of p got by removing trailing path components are     *)
(* Heads(p); Removed(p, v) are the components removed to get from p to v.  *)
(***************************************************************************)
RECURSIVE Removed(_, _)
Removed(p, v) ==
    IF p = v \/ p = <<>> THEN <<>>
    ELSE LET sp == PosixSplit(p) IN
         IF sp.head = p THEN <<>>
         ELSE Removed(sp.head, v) \o (IF sp.tail = <<>> THEN <<>> ELSE <<sp.tail>>)

OpeningPrefixes(p, opens) == (Heads(p) \ {<<>>}) \cap opens

LongestOpeningPrefix(p, opens) ==
    CHOOSE v \in OpeningPrefixes(p, opens) :
        \A q \in OpeningPrefixes(p, opens) : Len(q) <= Len(v)

\* What the claim says resolution yields for p.
LongestPrefixResult(p, opens) ==
    IF OpeningPrefixes(p, opens) = {} THEN NotFound
    ELSE LET v == LongestOpeningPrefix(p, opens) IN
         Located(v, IF v = p THEN None ELSE Some(PosixJoin(Removed(p, v))))

\* p ends in a separator without being the root
EndsInSeparator(p) == Len(p) > 0 /\ p[Len(p)] = Slash /\ ~AllSlashes(p)

\* C8 as stated: for every path, resolution returns the longest prefix that
\* opens together with the removed components joined in order (none exactly
\* when the path itself opens), and fails exactly when no prefix opens.
C8_LongestPrefixEveryPath ==
    loc_result # Pending =>
        loc_result[1] = LongestPrefixResult(loc_path, loc_opens)

\* C8 amended: that holds for every path that does not end in a separator; a
\* path that ends in one resolves to itself with no residual when it opens
\* and fails with not-found otherwise, whatever shorter prefix would open.
C8_LongestPrefixUnlessTrailingSeparator ==
    loc_result # Pending =>
        IF EndsInSeparator(loc_path)
        THEN loc_result[1] = (IF loc_path \in loc_opens
                              THEN Located(loc_path, None) ELSE NotFound)
        ELSE loc_result[1] = LongestPrefixResult(loc_path, loc_opens)

C8_Witness ==
    /\ loc_path = ExStreamPath
    /\ loc_result = Some(Located(ExVolumePath, Some(<<"P", "h", "y", "s", "i", "c", "a", "l", "M", "e", "m", "o", "r", "y">>)))

(***************************************************************************)
(* Claims about get_mapped_offset.                                         *)
(***************************************************************************)
IsMappedCall == last.op = "get_mapped_offset"

HasIndex == filenames # None

\* key is present in the FilenameIndex, as the lookup of get_mapped_offset sees it
Present(key) == HasIndex /\ CaseInsensitiveDictLookup(key, filenames[1]) # {None}
Absent(key) == HasIndex /\ CaseInsensitiveDictLookup(key, filenames[1]) = {None}

\* C1: a call for a filename present in the FilenameIndex returns B + o, B
\* being the base offset the first call for that filename resolved to on this
\* address space; and only that first call inserts a run.
C1_SameBaseEveryCall ==
    (IsMappedCall /\ Present(last.key)) =>
        /\ last.key \in DOMAIN first_call
        /\ first_call[last.key].base # None
        /\ last.ret = Some(first_call[last.key].base[1] + last.file_offset)
        /\ last.inserted => last.first

C1_Witness ==
    /\ IsMappedCall /\ Present(last.key)
    /\ last.hit /\ ~last.first
    /\ last.file_offset > 0
    /\ last.ret # None

\* C2: a call for a filename absent from the FilenameIndex returns none; the
\* first miss leaves a negative entry in self.mapped_files; a later call is
\* answered from that entry without a lookup in the index and without opening
\* a stream; and the call leaves the runs, end() and the session's file
\* mappings as they were.
C2_NegativeCache ==
    [][ (last'.op = "get_mapped_offset" /\ ninst' = ninst /\ Absent(last'.key)) =>
            /\ last'.ret = None
            /\ last'.key \in DOMAIN mapped_files'
            /\ mapped_files'[last'.key] = NegativeEntry
            /\ CaseInsensitiveDictLookup(last'.key, mapped_files) # {None} =>
                    last'.hit /\ ~last'.index_lookup /\ ~last'.opened
            /\ runs' = runs
            /\ End(runs') = End(runs)
            /\ file_mappings' = file_mappings ]_vars

C2_Witness ==
    /\ IsMappedCall /\ Absent(last.key)
    /\ last.hit /\ ~last.first
    /\ last.ret = None

\* C3 as stated: the base offset assigned to a newly mapped file is
\* align_up(end() + GAP, PAGE_SIZE): a multiple of the page size that is at
\* least end() + GAP.
AlignUp(x, a) == IF x % a = 0 THEN x ELSE x - (x % a) + a

C3_AlignedUp ==
    (IsMappedCall /\ last.assigned) =>
        /\ last.base = Some(AlignUp(last.end_before + GAP, PAGE_SIZE))
        /\ last.base[1] % PAGE_SIZE = 0
        /\ last.base[1] >= last.end_before + GAP

\* C3 amended: the base offset assigned is end() + GAP rounded down to a page
\* boundary: a multiple of the page size, above end() + GAP - PAGE_SIZE and at
\* most end() + GAP, and equal to end() + GAP when end() is page-aligned.
C3_AlignedDown ==
    (IsMappedCall /\ last.assigned) =>
        /\ last.base # None
        /\ last.base[1] % PAGE_SIZE = 0
        /\ last.base[1] > last.end_before + GAP - PAGE_SIZE
        /\ last.base[1] <= last.end_before + GAP
        /\ last.end_before % PAGE_SIZE = 0 => last.base[1] = last.end_before + GAP

C3_Witness ==
    /\ IsMappedCall /\ last.assigned
    /\ last.end_before % PAGE_SIZE # 0
    /\ last.base[1] < last.end_before + GAP

\* C4: no two runs overlap; a run that get_mapped_offset inserts starts at or
\* above the end of every run there was; and two different mapped files never
\* have the same base offset.
MappedKeys == {k \in DOMAIN first_call : first_call[k].subject # None}

C4_OverlaysDisjoint ==
    as_state = "Ready" =>
        /\ \A a, b \in runs : a # b => ~Overlap(a, b)
        /\ (IsMappedCall /\ last.inserted) => last.base[1] >= last.end_before
        /\ \A j, k \in MappedKeys :
              first_call[j].subject # first_call[k].subject =>
                  first_call[j].base # first_call[k].base

(***************************************************************************)
(* Claims about the FilenameIndex.                                         *)
(***************************************************************************)
Originals == {vol.original[i] : i \in 1..Len(vol.original)}

\* C6: the keys of the FilenameIndex are normalised like the filename that
\* get_mapped_offset looks up, so that a call with any spelling that
\* normalises like a stream's original filename finds a stream and returns
\* an offset.
C6_OriginalNameFound ==
    (IsMappedCall /\ HasIndex
        /\ \E t \in Originals : NormalizeFilename(t.value) = last.key)
    => last.ret # None

\* C7: after the index is built, a key that an original-filename attribute
\* produced maps to a subject that carries that attribute.
C7_OriginalAuthoritative ==
    (as_state = "Ready" /\ HasIndex) =>
        \A t \in Originals :
            \E u \in Originals :
                /\ Lower(u.value) = Lower(t.value)
                /\ filenames[1][Lower(t.value)] = u.subject

(***************************************************************************)
(* Claims about construction.                                              *)
(***************************************************************************)
IsInit == last.op = "init"

\* C9: a failed construction raises ASAssertionError, never a raw IOError,
\* and leaves nothing usable.
C9_TypedErrorOnly ==
    (IsInit /\ as_state # "Ready") =>
        /\ as_state = "Failed"
        /\ last.error \in {UnableToOpen, NoPhysicalMemory}

\* C10: construction from the path of a volume, with no stream path, loads
\* the first stream of the category query that has the physical-memory
\* category and no other; end() is that stream's size when it is a plain
\* stream; and with no such stream it fails with the no-physical-memory error.
IsFirstPhysical(category, i) ==
    /\ category[i].value = MemoryPhysical
    /\ \A j \in 1..(i - 1) : category[j].value # MemoryPhysical

C10_AutoLoadsFirstPhysical ==
    (IsInit /\ last.arg = VolumePath /\ vol.is_volume) =>
        IF \E i \in 1..Len(vol.category) : vol.category[i].value = MemoryPhysical
        THEN \E i \in 1..Len(vol.category) :
                /\ IsFirstPhysical(vol.category, i)
                /\ as_state = "Ready"
                /\ last.loaded = <<vol.category[i].subject>>
                /\ image = Some(vol.category[i].subject)
                /\ \A r \in runs : r.stream = vol.category[i].subject
                /\ vol.streams[vol.category[i].subject].kind = "image" =>
                      End(runs) = vol.streams[vol.category[i].subject].size
        ELSE as_state = "Failed" /\ last.error = NoPhysicalMemory

C10_Witness ==
    /\ IsInit /\ last.arg = VolumePath /\ as_state = "Ready"
    /\ Cardinality(PhysicalPositions(vol.category)) = 2
    /\ vol.streams[image[1]].kind = "image"
    /\ End(runs) = HalfPage

(***************************************************************************)
(* C5.  Two spellings of a drive-letter path are "the same" for the claim  *)
(* when they differ only in letter case, in the separator, in an optional  *)
(* leading separator and in SysNative (any case) against System32.         *)
(***************************************************************************)
IsDrivePath(s) == DriveMatch(s) # None

SpellingKey(s) ==
    Replace(Lower(Replace(DriveMatch(s)[1], <<Slash>>, <<BackSlash>>)),
            Lower(SysNative), Lower(System32))

SameSpelling(a, b) ==
    IsDrivePath(a) /\ IsDrivePath(b) /\ SpellingKey(a) = SpellingKey(b)

\* C5: the three example spellings get one key; the key of a drive-letter
\* path is the same for every spelling of it (letter case, separator, leading
\* separator, SysNative in any case or System32); any other path comes back
\* unchanged.
C5_SpellingIndependent ==
    norm_out # Pending =>
        /\ NormalizeFilename(Ex1) = NormalizeFilename(Ex2)
        /\ NormalizeFilename(Ex2) = NormalizeFilename(Ex3)
        /\ IF IsDrivePath(norm_in)
           THEN \A t \in NormInputs :
                    SameSpelling(t, norm_in) => NormalizeFilename(t) = norm_out[1]
           ELSE norm_out[1] = norm_in


(***************************************************************************)
(* Claims about describe and read.                                         *)
(***************************************************************************)
IsDescribe == view.op = "describe"

\* run r covers address a
Covers(r, a) == r.start <= a /\ a < r.start + r.length

\* the runs that covered address a when describe or read was called
Owners(a) == {r \in view.table : Covers(r, a)}

\* C11: describe renders the unmapped marker exactly when no run covers the
\* address; for a covered address it renders the bare address when the
\* covering run is of the primary image, and otherwise the translated offset
\* with the overlay stream and the address.
C11_UnmappedIffUncovered ==
    IsDescribe =>
        /\ (view.ret.form = "unmapped") <=> (Owners(view.address) = {})
        /\ \A r \in Owners(view.address) :
              IF Some(r.stream) = image
              THEN view.ret = Bare(view.address)
              ELSE view.ret = Mapped(view.address - r.start + r.file_offset,
                                     r.stream, view.address)


IsRead == view.op = "read"

\* A byte of a stream, and the zero byte of an address no run covers.
ByteOf(stream, offset) == [stream |-> Some(stream), offset |-> offset]
ZeroByte == [stream |-> None, offset |-> 0]

RECURSIVE TotalLength(_)
TotalLength(segments) ==
    IF segments = <<>> THEN 0 ELSE segments[1].length + TotalLength(Tail(segments))

\* byte i (from 0) of what a read returned
RECURSIVE ByteAt(_, _)
ByteAt(segments, i) ==
    IF i < segments[1].length
    THEN IF segments[1].stream = None THEN ZeroByte
         ELSE ByteOf(segments[1].stream[1], segments[1].offset + i)
    ELSE ByteAt(Tail(segments), i - segments[1].length)

\* the byte the claim puts at address a
ExpectedByte(a) ==
    IF Owners(a) = {} THEN ZeroByte
    ELSE LET r == CHOOSE q \in Owners(a) : TRUE IN
         ByteOf(r.stream, r.file_offset + (a - r.start))

SingleRun == view.table = {Run(0, 0, PAGE_SIZE, "s1")}

\* C16: read(address, length) returns length bytes; byte i is the byte at
\* backing_offset + (address + i - virtual_offset) of the stream of the run
\* covering address + i, and zero when no run covers it.  With the single run
\* {0, 0, 4096, S}: read(0, 4096) is S's bytes, read(8192, 16) is 16 zero
\* bytes, read(4090, 20) is the last 6 bytes of S and then 14 zero bytes.
C16_ReadByteExact ==
    IsRead =>
        /\ TotalLength(view.ret) = view.length
        /\ \A i \in 0..(view.length - 1) :
              ByteAt(view.ret, i) = ExpectedByte(view.address + i)
        /\ (SingleRun /\ view.address = 0 /\ view.length = PAGE_SIZE) =>
              view.ret = <<Segment(Some("s1"), 0, PAGE_SIZE)>>
        /\ (SingleRun /\ view.address = 2 * PAGE_SIZE /\ view.length = 16) =>
              view.ret = <<Segment(None, 0, 16)>>
        /\ (SingleRun /\ view.address = PAGE_SIZE - 6 /\ view.length = 20) =>
              view.ret = <<Segment(Some("s1"), PAGE_SIZE - 6, 6), Segment(None, 0, 14)>>

C16_Witness ==
    /\ IsRead /\ SingleRun
    /\ view.address = PAGE_SIZE - 6 /\ view.length = 20
    /\ Len(view.ret) = 2

(***************************************************************************)
(* Claims about ConfigureSession.                                          *)
(***************************************************************************)
IsConfigure == view.op = "configure"

MetadataFields == {"dtb", "kernel_base"}

\* the value information.yaml holds for a field, None when it holds none
FieldOf(md, name) ==
    IF name = "dtb"
    THEN IF md.registers = None THEN None ELSE md.registers[1].cr3
    ELSE md.kernbase

SameEntry(a, b, name) ==
    /\ name \in DOMAIN a <=> name \in DOMAIN b
    /\ name \in DOMAIN a => a[name] = b[name]

\* C12: after the session is configured from information.yaml, what the user
\* set is as it was; a field the user had set is not taken from the metadata,
\* a field the user had not set is, and each field is decided on its own.
C12_OverrideWins ==
    (IsConfigure /\ view.error = NoError /\ metadata.kind = "mapping") =>
        /\ params.explicit = view.before.explicit
        /\ \A name \in MetadataFields :
              IF name \in DOMAIN view.before.explicit
              THEN SameEntry(params.cache, view.before.cache, name)
              ELSE /\ name \in DOMAIN params.cache
                   /\ params.cache[name] = FieldOf(metadata, name)

C12_Witness ==
    /\ IsConfigure /\ view.error = NoError
    /\ metadata = MappingMetadata(Some(Registers(Some(ImageCR3))), Some(ImageKernBase))
    /\ DOMAIN params.explicit = {"dtb"}
    /\ DOMAIN params.cache = {"kernel_base"}

WellFormed(md) ==
    /\ md.kind = "mapping"
    /\ md.registers # None => md.registers[1].kind = "mapping"

\* C13: ConfigureSession never raises; with information.yaml missing or
\* malformed it warns and leaves the session's dtb and kernel_base as they
\* were.
C13_MetadataNeverSurfaces ==
    IsConfigure =>
        /\ view.error = NoError
        /\ ~WellFormed(metadata) => (view.warned /\ params = view.before)

(***************************************************************************)
(* Claims about the Ready address space.                                   *)
(***************************************************************************)
\* C14: an address space that is Ready has its FilenameIndex, and
\* get_mapped_offset on it returns an offset or none without raising.
C14_IndexAlwaysBuilt ==
    /\ as_state = "Ready" => HasIndex
    /\ IsMappedCall => last.error = NoError

\* C15: once the session's table maps a filename at base B, a call for that
\* filename on an address space of the session that has the file in its index
\* returns B + o.
C15_SessionBase ==
    (IsMappedCall /\ HasIndex /\ Present(last.key) /\ last.key \in DOMAIN file_mappings) =>
        last.ret = Some(file_mappings[last.key] + last.file_offset)

\* the extents a stream declares, as runs on that stream
ExtentRuns(st, subject) ==
    { Run(st.ranges[i].map_offset, st.ranges[i].map_offset, st.ranges[i].length, subject) :
        i \in 1..Len(st.ranges) }

WholeRun(st, subject) == {Run(0, 0, st.size, subject)}

\* C17 as stated: the initial run table has one run per declared extent when
\* the stream declares extents, and otherwise (no range interface, or an
\* empty range sequence) the single run {0, 0, size}; every run is of the
\* primary image.
C17_RunPerExtentElseWhole ==
    (IsInit /\ as_state = "Ready") =>
        LET st == vol.streams[image[1]] IN
        /\ runs = IF st.kind = "map" /\ st.ranges # <<>>
                  THEN ExtentRuns(st, image[1]) ELSE WholeRun(st, image[1])
        /\ \A r \in runs : r.stream = image[1]

\* C17 amended: a stream with the range interface gets one run per declared
\* extent (none when it declares none), at the extent's offset in both the
\* address space and the stream; a stream without the interface gets the
\* single run {0, 0, size}; every run is of the primary image.
C17_RunPerExtentOfMap ==
    (IsInit /\ as_state = "Ready") =>
        LET st == vol.streams[image[1]] IN
        /\ runs = IF st.kind = "map"
                  THEN ExtentRuns(st, image[1]) ELSE WholeRun(st, image[1])
        /\ Cardinality(runs) = IF st.kind = "map" THEN Len(st.ranges) ELSE 1
        /\ \A r \in runs : r.stream = image[1]

C17_Witness ==
    /\ IsInit /\ as_state = "Ready"
    /\ vol.streams[image[1]].kind = "map"
    /\ Cardinality(runs) = 2

(***************************************************************************)
(* C18: two threads in get_mapped_offset.                                  *)
(***************************************************************************)
BothDone == \A t \in Threads : pc[t] = "done"

MappedBy(t) == thr[t].subject # None

RangesOverlap(a, m, b, n) == m > 0 /\ n > 0 /\ a < b + n /\ b < a + m

\* C18: however the two calls interleave, two calls for one filename return
\* the same base offset and leave one run for the file, and two calls for
\* different files are assigned ranges that do not overlap.
C18_AtomicUnderInterleaving ==
    BothDone =>
        \A t, u \in Threads :
            (t # u /\ MappedBy(t) /\ MappedBy(u)) =>
                IF thr[t].subject = thr[u].subject
                THEN /\ thr[t].ret = thr[u].ret
                     /\ Cardinality({r \in runs : r.stream = thr[t].subject[1]}) = 1
                ELSE ~RangesOverlap(thr[t].mapped_offset[1], vol.streams[thr[t].subject[1]].size,
                                    thr[u].mapped_offset[1], vol.streams[thr[u].subject[1]].size)

(***************************************************************************)
(* C19: the loop of _LocateAFF4Volume.                                     *)
(***************************************************************************)
RECURSIVE LStripSlash(_)
LStripSlash(s) ==
    IF Len(s) > 0 /\ s[1] = Slash THEN LStripSlash(Tail(s)) ELSE s

\* q is p with its last component, and the separators before it, removed
OneComponentShorter(p, q) ==
    /\ Len(q) < Len(p)
    /\ SubSeq(p, 1, Len(q)) = q
    /\ LET component == LStripSlash(SubSeq(p, Len(q) + 1, Len(p))) IN
       /\ component # <<>>
       /\ \A i \in 1..Len(component) : component[i] # Slash

\* C19: an iteration that neither returns nor raises leaves the candidate
\* path one component shorter, and the search ends: with a volume, or with
\* the not-found error once the path is empty or has no component to split.
C19_ResolutionTerminates ==
    /\ [][loc_result' = Pending => OneComponentShorter(cur_volume_path, cur_volume_path')]_vars
    /\ <>(loc_result # Pending)
    /\ [](loc_result # Pending =>
            /\ loc_result[1] = LocateAFF4Volume(loc_path, loc_opens)
            /\ loc_result[1] = NotFound =>
                  \/ cur_volume_path = <<>>
                  \/ AllSlashes(cur_volume_path)
                  \/ PosixSplit(loc_path).tail = <<>>)

C19_Witness ==
    /\ loc_result # Pending
    /\ Len(cur_stream_name) = 2
    /\ loc_result[1] = NotFound

(***************************************************************************)
(* C20: CollectAction.run.                                                 *)
(***************************************************************************)
Before(log, i, event) == \E j \in 1..(i - 1) : log[j] = event

IsPrefix(a, b) == Len(a) <= Len(b) /\ SubSeq(b, 1, Len(a)) = a

\* C20: a run that returns has opened the collection, inserted the query's
\* rows one by one in the order produced, closed it and returned it; an
\* insert comes after the open and before the close; and with other than one
\* table the run raises TypeError with the collection never opened.
C20_OpenInsertClose ==
    /\ coll.pc = "returned" =>
          /\ coll.state = "closed"
          /\ coll.result = Some("closed")
          /\ coll.rows = coll.all
          /\ coll.log = <<"open">> \o [i \in 1..Len(coll.all) |-> "insert"] \o <<"close">>
    /\ \A i \in 1..Len(coll.log) :
          coll.log[i] = "insert" =>
              Before(coll.log, i, "open") /\ ~Before(coll.log, i, "close")
    /\ IsPrefix(coll.rows, coll.all)
    /\ (coll.tables # 1 /\ coll.pc # "idle") =>
          /\ coll.pc \in {"check", "raised"}
          /\ coll.pc = "raised" => coll.error = TypeError
          /\ coll.log = <<>> /\ coll.rows = <<>> /\ coll.state = "new"

C20_Witness ==
    /\ coll.pc = "returned"
    /\ Len(coll.rows) >= 2
    /\ coll.rows[1] # coll.rows[2]

=============================================================================
